---- MODULE Spec2Model ----
(***************************************************************************)
(* Foosball API (src/main.py, src/admin.py, src/models.py).                *)
(*                                                                         *)
(* State: the `player` table (Player rows), the `match` table (Match       *)
(* rows), the materialized ledger `players_scores`, the two SERIAL id      *)
(* counters, and the last request with its response.  One action per HTTP  *)
(* handler; a handler runs from request to response without interleaving   *)
(* (spec section 5: one request at a time per session).                    *)
(*                                                                         *)
(* The raw SQL of main.py names the tables `players` and `matches`; they   *)
(* are read here as the tables of the Player and Match models.  A storage  *)
(* error of the recomputation is an input of the handlers that run it.     *)
(***************************************************************************)
EXTENDS Integers, Sequences, FiniteSets, TLC

\* ---- bounds of the model ----
\* player ids the SERIAL hands out
MaxPlayers == 4
\* match ids the SERIAL hands out, when every handler runs and storage may fail
MaxMatches == 1
\* match ids the SERIAL hands out, when only successful creations and deletions run
MaxCleanMatches == 2

\* display names (not unique), in ascending collation order
NameOrder == <<"anna", "bruno">>
Names == {NameOrder[i] : i \in 1..Len(NameOrder)}
NameRank(n) == CHOOSE i \in 1..Len(NameOrder) : NameOrder[i] = n

\* score lines a client submits: <<score_a, score_b>>
ScoreLines == {<<6, 0>>, <<0, 6>>, <<3, 2>>, <<2, 3>>, <<2, 2>>}

\* rosters a client submits: <<teamA_attacker, teamA_goalkeeper, teamB_attacker, teamB_goalkeeper>>;
\* one repeats an id, one names an id no player ever has
Rosters == {<<1, 2, 3, 4>>, <<3, 1, 4, 2>>, <<1, 1, 3, 4>>, <<2, 3, 4, 9>>}

\* player ids a client asks to delete; the last one is never handed out
DeleteIds == 1..(MaxPlayers + 1)

\* match ids a client asks to delete
MatchIds == 1..(MaxCleanMatches + 1)

\* a recomputation runs through or raises a storage error
RecomputeOutcomes == {"ok", "failed"}

VARIABLES
    players,         \* table player: id -> [name, points]
    next_player_id,  \* SERIAL of player.id
    matches,         \* table match: set of Match rows
    next_match_id,   \* SERIAL of match.id
    players_scores,  \* table players_scores: player_id -> points
    lastOp,          \* the last request: handler, response status, how its recomputation ended
    lbResp           \* body of the last GET /leaderboard, <<>> after any other request

vars == <<players, next_player_id, matches, next_match_id, players_scores,
      lastOp, lbResp>>

\* recompute: "ok", "failed", or "-" when the handler ran none;
\* undo: a DELETE /matches/{id} of the match the request right before it created;
\* ids: the four slot ids of a POST /matches
Op(op, status, recompute, undo) ==
    [op |-> op, status |-> status, recompute |-> recompute, undo |-> undo, ids |-> <<>>]

\* ---- models.py ----

Player(name) == [name |-> name, points |-> 0]

Match(id, ids, sa, sb, winner, awarded) ==
    [id |-> id,
     teamA_attacker_id |-> ids[1], teamA_goalkeeper_id |-> ids[2],
     teamB_attacker_id |-> ids[3], teamB_goalkeeper_id |-> ids[4],
     score_a |-> sa, score_b |-> sb,
     winner_team |-> winner, points_awarded |-> awarded]

TeamA(m) == {m.teamA_attacker_id, m.teamA_goalkeeper_id}
TeamB(m) == {m.teamB_attacker_id, m.teamB_goalkeeper_id}

\* ---- helper: materialized scores table ----

\* INSERT INTO players_scores SELECT p.id, 0 FROM players p ON CONFLICT DO NOTHING
ensure_scores_table(ps, pl) ==
    [p \in (DOMAIN ps) \cup (DOMAIN pl) |-> IF p \in DOMAIN ps THEN ps[p] ELSE 0]

\* UPDATE players_scores SET points = 0
azzera_skipped(ps) == ps
azzera(ps) == [p \in DOMAIN ps |-> 0]

\* UPDATE players_scores ps SET points = ps.points + d FROM matches m WHERE <cond> AND ps.player_id IN <side>:
\* a target row that joins several rows of matches is updated once.
UpdateFrom(ps, hit, d) == [p \in DOMAIN ps |-> IF p \in hit THEN ps[p] + d ELSE ps[p]]

JoinA(ms, kind) ==
    UNION {TeamA(m) : m \in {x \in ms :
        \/ kind = "cappottoA" /\ x.score_a = 6 /\ x.score_b = 0
        \/ kind = "cappottoB" /\ x.score_b = 6 /\ x.score_a = 0
        \/ kind = "winA" /\ x.score_a > x.score_b
        \/ kind = "winB" /\ x.score_a < x.score_b}}

JoinB(ms, kind) ==
    UNION {TeamB(m) : m \in {x \in ms :
        \/ kind = "cappottoA" /\ x.score_a = 6 /\ x.score_b = 0
        \/ kind = "cappottoB" /\ x.score_b = 6 /\ x.score_a = 0
        \/ kind = "winA" /\ x.score_b < x.score_a
        \/ kind = "winB" /\ x.score_b > x.score_a}}

\* the eight UPDATE ... FROM statements, in order
apply_updates(ps, ms) ==
    LET s1 == UpdateFrom(ps, JoinA(ms, "cappottoA"), 4)
        s2 == UpdateFrom(s1, JoinB(ms, "cappottoA"), -1)
        s3 == UpdateFrom(s2, JoinB(ms, "cappottoB"), 4)
        s4 == UpdateFrom(s3, JoinA(ms, "cappottoB"), -1)
        s5 == UpdateFrom(s4, JoinA(ms, "winA"), 3)
        s6 == UpdateFrom(s5, JoinB(ms, "winB"), 3)
        s7 == UpdateFrom(s6, JoinA(ms, "winB"), 1)
        s8 == UpdateFrom(s7, JoinB(ms, "winA"), 1)
    IN  s8

recompute_scores_tx(ps, ms, pl) == apply_updates(azzera(ensure_scores_table(ps, pl)), ms)

\* try: recompute_scores_tx(session); session.commit() / except: session.rollback().
\* ensure_scores_table commits on its own before the UPDATEs.
try_recompute(ps, ms, pl, outcome) ==
    IF outcome = "failed" THEN ensure_scores_table(ps, pl)
    ELSE recompute_scores_tx(ps, ms, pl)

Init ==
    /\ players = <<>>
    /\ next_player_id = 1
    /\ matches = {}
    /\ next_match_id = 1
    /\ players_scores = <<>>
    /\ lastOp = Op("startup", 200, "-", FALSE)
    /\ lbResp = <<>>

\* ---- PLAYERS ----

\* POST /players
create_player(name) ==
    /\ next_player_id <= MaxPlayers
    /\ LET pl == players @@ (next_player_id :> Player(name))
       IN  /\ players' = pl
           /\ players_scores' = ensure_scores_table(players_scores, pl)
    /\ next_player_id' = next_player_id + 1
    /\ lastOp' = Op("create_player", 200, "-", FALSE)
    /\ lbResp' = <<>>
    /\ UNCHANGED <<matches, next_match_id>>

\* session.delete(p); players_scores.player_id REFERENCES players(id) ON DELETE CASCADE
without_player(f, player_id) == [p \in (DOMAIN f) \ {player_id} |-> f[p]]

\* DELETE /players/{player_id}
delete_player_by_id(player_id) ==
    /\ IF player_id \notin DOMAIN players
       THEN /\ lastOp' = Op("delete_player_by_id", 404, "-", FALSE)
            /\ UNCHANGED <<players, players_scores>>
       ELSE /\ players' = without_player(players, player_id)
            /\ players_scores' = without_player(players_scores, player_id)
            /\ lastOp' = Op("delete_player_by_id", 200, "-", FALSE)
    /\ lbResp' = <<>>
    /\ UNCHANGED <<next_player_id, matches, next_match_id>>

\* ---- LEADERBOARD (materialized) ----

\* SELECT p.id, p.name, COALESCE(ps.points, 0) FROM players p LEFT JOIN players_scores ps
Row(ps, pl, p) ==
    [id |-> p, name |-> pl[p].name, points |-> IF p \in DOMAIN ps THEN ps[p] ELSE 0]

\* ORDER BY points DESC, p.name ASC: rows equal on both keys come in any order
OrderedBy(r1, r2) ==
    \/ r1.points > r2.points
    \/ r1.points = r2.points /\ NameRank(r1.name) <= NameRank(r2.name)

\* every sequence of the rows that the ORDER BY allows
RECURSIVE Sorted(_)
Sorted(rows) ==
    IF rows = {} THEN {<<>>}
    ELSE UNION {{<<r>> \o rest : rest \in Sorted(rows \ {r})} :
                   r \in {x \in rows : \A y \in rows : OrderedBy(x, y)}}

QueryResults(ps, pl) == Sorted({Row(ps, pl, p) : p \in DOMAIN pl})

\* GET /leaderboard
leaderboard ==
    /\ players_scores' = ensure_scores_table(players_scores, players)
    /\ \E rows \in QueryResults(players_scores', players) : lbResp' = rows
    /\ lastOp' = Op("leaderboard", 200, "-", FALSE)
    /\ UNCHANGED <<players, next_player_id, matches, next_match_id>>

\* POST /admin/recompute-leaderboard
recompute_leaderboard(outcome) ==
    /\ players_scores' = try_recompute(players_scores, matches, players, outcome)
    /\ lastOp' = Op("recompute_leaderboard", IF outcome = "ok" THEN 200 ELSE 500, outcome, FALSE)
    /\ lbResp' = <<>>
    /\ UNCHANGED <<players, next_player_id, matches, next_match_id>>

\* ---- MATCHES ----

\* {p.id: p for p in select(Player).where(Player.id.in_(ids))}
players_in(pl, ids) == {p \in DOMAIN pl : \E i \in 1..4 : ids[i] = p}

\* if len(players) != 4
invalid_players_unknown_only(ids, found) == \E i \in 1..4 : ids[i] \notin found
invalid_players(ids, found) == Cardinality(found) # 4

winner_team(sa, sb) == IF sa > sb THEN "A" ELSE "B"

cappotto_a_only(sa, sb) == sa = 6 /\ sb = 0
cappotto(sa, sb) == (sa = 6 /\ sb = 0) \/ (sa = 0 /\ sb = 6)

\* the awarded dict: the winners' entries are written first, then the losers'
awarded_points(ids, sa, sb) ==
    LET teamA == {ids[1], ids[2]}
        teamB == {ids[3], ids[4]}
        win_team == IF winner_team(sa, sb) = "A" THEN teamA ELSE teamB
        lose_team == IF winner_team(sa, sb) = "A" THEN teamB ELSE teamA
    IN  [p \in win_team \cup lose_team |->
            IF cappotto(sa, sb)
            THEN (IF p \in lose_team THEN -1 ELSE 4)
            ELSE (IF p \in lose_team THEN 1 ELSE 3)]

\* json.dumps(awarded): the integer keys become their decimal strings
json_dumps(awarded) ==
    [k \in {ToString(p) : p \in DOMAIN awarded} |->
        awarded[CHOOSE p \in DOMAIN awarded : ToString(p) = k]]

\* for pid, pts in awarded.items(): players[pid].points += pts
add_points(pl, awarded) ==
    [p \in DOMAIN pl |-> IF p \in DOMAIN awarded
                         THEN [pl[p] EXCEPT !.points = @ + awarded[p]]
                         ELSE pl[p]]

\* POST /matches
create_match(ids, sa, sb, outcome) ==
    LET found == players_in(players, ids)
        awarded == awarded_points(ids, sa, sb)
        m == Match(next_match_id, ids, sa, sb, winner_team(sa, sb), json_dumps(awarded))
    IN  /\ lbResp' = <<>>
        /\ IF invalid_players(ids, found)
           THEN /\ lastOp' = [Op("create_match", 400, "-", FALSE) EXCEPT !.ids = ids]
                /\ UNCHANGED <<players, next_player_id, matches, next_match_id, players_scores>>
           ELSE /\ players' = add_points(players, awarded)
                /\ matches' = matches \cup {m}
                /\ next_match_id' = next_match_id + 1
                /\ players_scores' = try_recompute(players_scores, matches', players', outcome)
                /\ lastOp' = [Op("create_match", 200, outcome, FALSE) EXCEPT !.ids = ids]
                /\ UNCHANGED next_player_id

\* DELETE /matches/{match_id}
delete_match(match_id, outcome) ==
    /\ lbResp' = <<>>
    /\ IF \A m \in matches : m.id # match_id
       THEN /\ lastOp' = Op("delete_match", 404, "-", FALSE)
            /\ UNCHANGED <<matches, players_scores>>
       ELSE /\ matches' = {m \in matches : m.id # match_id}
            /\ players_scores' = try_recompute(players_scores, matches', players, outcome)
            /\ lastOp' = Op("delete_match", 200, outcome,
                            lastOp.op = "create_match" /\ lastOp.status = 200
                                /\ match_id = next_match_id - 1)
    /\ UNCHANGED <<players, next_player_id, next_match_id>>

\* ---- ADMIN ----

\* for m in session.exec(select(Match)).all(): session.delete(m)
all_but_oldest(ms) == {m \in ms : \E o \in ms : o.id < m.id}
deleted_by_reset(ms) == ms

\* UPDATE players_scores SET points = 0 (admin_reset)
reset_points(ps) == [p \in DOMAIN ps |-> 0]

\* POST /admin/reset (main.py)
admin_reset ==
    /\ matches' = matches \ deleted_by_reset(matches)
    /\ players_scores' = reset_points(ensure_scores_table(players_scores, players))
    /\ lastOp' = Op("admin_reset", 200, "-", FALSE)
    /\ lbResp' = <<>>
    /\ UNCHANGED <<players, next_player_id, next_match_id>>

\* POST /admin/reset (admin.py router): DELETE FROM matches; the ledger is left alone
reset_db ==
    /\ matches' = {}
    /\ lastOp' = Op("reset_db", 200, "-", FALSE)
    /\ lbResp' = <<>>
    /\ UNCHANGED <<players, next_player_id, next_match_id, players_scores>>

\* DELETE /admin/players/{player_id} (admin.py router)
delete_player(player_id) ==
    /\ IF player_id \notin DOMAIN players
       THEN /\ lastOp' = Op("delete_player", 404, "-", FALSE)
            /\ UNCHANGED <<players, players_scores>>
       ELSE /\ players' = without_player(players, player_id)
            /\ players_scores' = without_player(players_scores, player_id)
            /\ lastOp' = Op("delete_player", 200, "-", FALSE)
    /\ lbResp' = <<>>
    /\ UNCHANGED <<next_player_id, matches, next_match_id>>

Next ==
    \/ create_player(NameOrder[1])
    \/ \E player_id \in DeleteIds : delete_player_by_id(player_id)
    \/ \E outcome \in RecomputeOutcomes : recompute_leaderboard(outcome)
    \/ \E ids \in Rosters, sc \in ScoreLines, outcome \in RecomputeOutcomes :
           create_match(ids, sc[1], sc[2], outcome) /\ next_match_id' <= MaxMatches + 1
    \/ \E match_id \in MatchIds, outcome \in RecomputeOutcomes : delete_match(match_id, outcome)
    \/ admin_reset
    \/ reset_db
    \/ \E player_id \in DeleteIds : delete_player(player_id)

\* every handler of main.py and of the admin.py router that writes a table; a storage error
\* may hit any recomputation.  GET /leaderboard writes nothing here (every player has its
\* ledger row): its body in a state is any member of LeaderboardBodies.
Spec == Init /\ [][Next]_vars

NextClean ==
    \/ \E name \in Names : create_player(name)
    \/ leaderboard
    \/ \E ids \in Rosters, sc \in ScoreLines :
           /\ create_match(ids, sc[1], sc[2], "ok")
           /\ lastOp'.status = 200 /\ next_match_id' <= MaxCleanMatches + 1
    \/ \E match_id \in MatchIds : delete_match(match_id, "ok") /\ lastOp'.status = 200

\* only successful POST /players, POST /matches and DELETE /matches/{id}, and reads of the leaderboard
SpecClean == Init /\ [][NextClean]_vars

\* ---------------------------------------------------------------------------
\* Properties
\* ---------------------------------------------------------------------------

\* the bodies GET /leaderboard can return in the current state
LeaderboardBodies == QueryResults(ensure_scores_table(players_scores, players), players)

\* the points GET /leaderboard reports for player p in the current state
LbPoints(p) == Row(ensure_scores_table(players_scores, players), players, p).points

Slots(m) == TeamA(m) \cup TeamB(m)
Shutout(m) == (m.score_a = 6 /\ m.score_b = 0) \/ (m.score_a = 0 /\ m.score_b = 6)
Winners(m) == IF m.score_a > m.score_b THEN TeamA(m) ELSE TeamB(m)
Losers(m) == IF m.score_a > m.score_b THEN TeamB(m) ELSE TeamA(m)

\* the delta the scoring rule gives player p for match m (unequal scores)
RuleDelta(m, p) ==
    IF p \in Winners(m) THEN (IF Shutout(m) THEN 4 ELSE 3)
    ELSE IF p \in Losers(m) THEN (IF Shutout(m) THEN -1 ELSE 1)
    ELSE 0

RECURSIVE RuleTotal(_, _)
RuleTotal(ms, p) ==
    IF ms = {} THEN 0
    ELSE LET m == CHOOSE x \in ms : TRUE
         IN  RuleDelta(m, p) + RuleTotal(ms \ {m}, p)

\* the delta match m's frozen point-award map holds for player p
AwardedTo(m, p) ==
    IF ToString(p) \in DOMAIN m.points_awarded THEN m.points_awarded[ToString(p)] ELSE 0

RECURSIVE AwardedTotal(_, _)
AwardedTotal(ms, p) ==
    IF ms = {} THEN 0
    ELSE LET m == CHOOSE x \in ms : TRUE
         IN  AwardedTo(m, p) + AwardedTotal(ms \ {m}, p)

RECURSIVE SumOf(_, _)
SumOf(f, keys) ==
    IF keys = {} THEN 0
    ELSE LET k == CHOOSE x \in keys : TRUE
         IN  f[k] + SumOf(f, keys \ {k})

\* the ledger a recomputation from an all-zero ledger yields for the players in pl
FromScratch(ms, pl) == apply_updates([p \in DOMAIN pl |-> 0], ms)

\* C1: after only successful POST /players, POST /matches and DELETE /matches/{id}, the points
\* GET /leaderboard reports for every player are the sum of the rule's deltas (+4/-1 for a
\* 6-0 or 0-6, +3/+1 for any other unequal score) over the recorded matches the player is in.
C1_LeaderboardIsSumOfDeltas ==
    (lastOp.op = "leaderboard" /\ \A m \in matches : m.score_a # m.score_b)
        => \A i \in DOMAIN lbResp : lbResp[i].points = RuleTotal(matches, lbResp[i].id)

\* C1's scenario (A beats B 6-0, then B beats A 3-2) has happened and the leaderboard
\* reports 8 for both A players and 3 for both B players
C1_Scenario ==
    /\ lastOp.op = "leaderboard"
    /\ \E m1, m2 \in matches :
          /\ m1.id = 1 /\ m1.score_a = 6 /\ m1.score_b = 0 /\ TeamA(m1) = {1, 2}
          /\ m2.id = 2 /\ m2.score_a = 2 /\ m2.score_b = 3 /\ TeamA(m2) = {1, 2}
    /\ \A i \in DOMAIN lbResp : lbResp[i].points = (IF lbResp[i].id \in {1, 2} THEN 8 ELSE 3)

C3_MutationAndLedgerNeverDiverge ==
    (lastOp.op \in {"create_match", "delete_match"} /\ lastOp.status = 200)
        => \A p \in DOMAIN players :
               LbPoints(p) = recompute_scores_tx(players_scores, matches, players)[p]

FourDistinctExisting(ids) ==
    /\ \A i \in 1..4 : ids[i] \in DOMAIN players
    /\ \A i, j \in 1..4 : i # j => ids[i] # ids[j]

\* C4: a POST /matches whose four slot ids are not four distinct ids of existing players is
\* answered 400 and leaves the matches, the stored player points and the ledger unchanged.
C4_InvalidRosterRejectedUnchanged ==
    [][(lastOp'.op = "create_match" /\ ~FourDistinctExisting(lastOp'.ids))
          => (lastOp'.status = 400 /\ UNCHANGED <<matches, players, players_scores, next_match_id>>)]_vars

\* a roster repeating an id was rejected while four players and a match exist
C4_Witness ==
    /\ lastOp.op = "create_match" /\ lastOp.status = 400
    /\ \E i, j \in 1..4 : i # j /\ lastOp.ids[i] = lastOp.ids[j]
    /\ Cardinality(DOMAIN players) = 4
    /\ matches # {}

\* C5 as stated: after POST /admin/reset no match and no player remains, and the
\* leaderboard read right after it is the empty list.
C5_ResetLeavesNothing ==
    lastOp.op \in {"admin_reset", "reset_db"}
        => (matches = {} /\ DOMAIN players = {} /\ LeaderboardBodies = {<<>>})

\* C5 as amended: after POST /admin/reset no match remains and the players are kept; the
\* leaderboard read right after it lists every existing player once, with 0 points each when
\* the handler is main.py's admin_reset, and is empty only when no player exists.
C5_ResetKeepsPlayers ==
    lastOp.op \in {"admin_reset", "reset_db"}
        => /\ matches = {}
           /\ \A rows \in LeaderboardBodies :
                 /\ Len(rows) = Cardinality(DOMAIN players)
                 /\ {rows[i].id : i \in DOMAIN rows} = DOMAIN players
                 /\ lastOp.op = "admin_reset" => \A i \in DOMAIN rows : rows[i].points = 0

\* main.py's reset has run with four players, some of them with points from a match
C5_Witness ==
    /\ lastOp.op = "admin_reset"
    /\ Cardinality(DOMAIN players) = 4
    /\ \E p \in DOMAIN players : players[p].points # 0

\* C6: each player's stored Player.points equals the sum of the deltas that the currently
\* recorded matches awarded to that player (0 for a player in no recorded match).
C6_StoredPointsMatchRecordedMatches ==
    \A p \in DOMAIN players : players[p].points = AwardedTotal(matches, p)

\* C7: every recorded match with unequal scores carries a point-award map with exactly four
\* entries, one per slot player: +4 per winner and -1 per loser (sum 6) for a 6-0 or 0-6,
\* +3 per winner and +1 per loser (sum 8) otherwise, the winners being the higher-scoring team.
C7_AwardMapPerOutcomeClass ==
    \A m \in matches : m.score_a # m.score_b =>
        LET keys == {ToString(p) : p \in Slots(m)}
        IN  /\ DOMAIN m.points_awarded = keys
            /\ Cardinality(keys) = 4
            /\ \A p \in Winners(m) : m.points_awarded[ToString(p)] = (IF Shutout(m) THEN 4 ELSE 3)
            /\ \A p \in Losers(m) : m.points_awarded[ToString(p)] = (IF Shutout(m) THEN -1 ELSE 1)
            /\ SumOf(m.points_awarded, keys) = (IF Shutout(m) THEN 6 ELSE 8)
            /\ m.winner_team = (IF m.score_a > m.score_b THEN "A" ELSE "B")

\* a 0-6 match is recorded
C7_Witness ==
    \E m \in matches : m.score_a = 0 /\ m.score_b = 6 /\ m.winner_team = "B"

\* C8: a match with equal scores attributes points symmetrically: every one of the four
\* participants gets +1 or nobody gets anything, in the point-award map written by
\* POST /matches and in the match's contribution to the recomputed ledger.
C8_TieIsSymmetric ==
    \A m \in matches : m.score_a = m.score_b =>
        /\ \/ \A k \in DOMAIN m.points_awarded : m.points_awarded[k] = 1
           \/ \A k \in DOMAIN m.points_awarded : m.points_awarded[k] = 0
        /\ LET one == apply_updates([p \in Slots(m) |-> 0], {m})
           IN  \/ \A p \in Slots(m) : one[p] = 1
               \/ \A p \in Slots(m) : one[p] = 0

\* C9: GET /leaderboard returns every existing player exactly once, points never increasing
\* from one entry to the next and equal points in ascending name order, and a second call
\* right after the first returns the same sequence.
C9_LeaderboardOrderedAndStable ==
    [][lastOp'.op = "leaderboard" =>
          /\ Len(lbResp') = Cardinality(DOMAIN players')
          /\ {lbResp'[i].id : i \in DOMAIN lbResp'} = DOMAIN players'
          /\ \A i \in DOMAIN lbResp' : i < Len(lbResp') =>
                 \/ lbResp'[i].points > lbResp'[i + 1].points
                 \/ /\ lbResp'[i].points = lbResp'[i + 1].points
                    /\ NameRank(lbResp'[i].name) <= NameRank(lbResp'[i + 1].name)
          /\ lastOp.op = "leaderboard" => lbResp' = lbResp]_vars

\* C10: each recorded match's four slot ids are four distinct ids of players that exist.
C10_SlotsReferenceExistingPlayers ==
    \A m \in matches : Cardinality(Slots(m)) = 4 /\ Slots(m) \subseteq DOMAIN players

====
